---- MODULE Spec2Model ----
(***************************************************************************)
(* A model of src/psql.py: the per-window settings resolver PsqlSettings,  *)
(* the command PsqlCommand that dispatches psql invocations, its worker    *)
(* threads and the thread that reports their completion.                   *)
(*                                                                         *)
(* Python dictionaries are functions whose DOMAIN is the set of keys.      *)
(* Python values are strings; None is the string "None" and the falsy      *)
(* values are "" and None.  An exception raised by a call is recorded in   *)
(* the record of that call, under the name of its Python class.            *)
(*                                                                         *)
(* The specifications:                                                     *)
(*   Spec          the program as its public entry points drive it: the    *)
(*                 settings API of a window's store and PsqlCommand.run.   *)
(*                 run raises at line 221, so nothing behind it is         *)
(*                 reached from here.                                      *)
(*   SpecHandlers  the private handlers __run_with_password and            *)
(*                 __cancelled, each started at its entry as its caller    *)
(*                 (run, the input panel) would start it.  They raise at   *)
(*                 line 247 or 258, so no thread is reached from here.     *)
(*   SpecThreads   the worker threads and the reporting thread of one      *)
(*                 invocation, started in the state lines 259-291 build;   *)
(*                 SpecThreadsFair adds the fairness of their scheduling,  *)
(*                 SpecInFlight settings that change under the workers.    *)
(*   SpecWindows   the stores of two windows, opened and closed, over a    *)
(*                 settings file that is edited from outside.              *)
(***************************************************************************)
EXTENDS Naturals, Integers, Sequences, FiniteSets, TLC

VARIABLES
    settings,       \* PsqlSettings.__settings: the persisted backend, key 'default_'+name |-> value
    loaded,         \* PsqlSettings.__settings is not None (backend loaded, 'reload' callback registered)
    windows,        \* PsqlSettings.__windows: the ids that have a store in the registry
    stores,         \* the ids whose store object has been constructed
    defaults,       \* defaults[w]: self.__defaults of the store of window w (the working layer)
    userspecified,  \* userspecified[w]: self.__userspecified (the session overrides)
    output_lock,    \* output_lock[w]: self.output_lock, Free or the worker that holds it
    result,         \* the last call made on the settings API and what it returned or raised
    env,            \* what the command finds around it: the selections and the encoding of its view,
                    \* the files on disk, os.environ
    cmd,            \* the PsqlCommand of window CmdWindow: its last handler and where that ended
    ui,             \* what the editor has been asked to show: status messages, input panel, output panel, new views
    thread_infos,   \* the thread_info dictionaries built by __run_with_password
    threads,        \* threads[i]: the __PostgresQueryExecute thread of thread_infos[i]
    sup             \* the __PostgresQueryHandleExecution thread that is current

storeVars == <<settings, loaded, windows, stores, defaults, userspecified, output_lock, result>>
cmdVars == <<env, cmd, ui, thread_infos, threads, sup>>
vars == <<settings, loaded, windows, stores, defaults, userspecified, output_lock, result,
          env, cmd, ui, thread_infos, threads, sup>>

----------------------------------------------------------------------------
(* Values and dictionaries *)

None == "None"

Falsy == {"", None}

Truthy(v) == v \notin Falsy

Values == {"", "a"}

EmptyDict == [x \in {} |-> None]

\* a threading.Lock that nobody holds
Free == 0

DictSet(d, k, v) == [x \in (DOMAIN d) \cup {k} |-> IF x = k THEN v ELSE d[x]]

DictDel(d, k) == [x \in (DOMAIN d) \ {k} |-> d[x]]

\* dict.update: the entries of e on top of those of d
Merge(d, e) == [x \in (DOMAIN d) \cup (DOMAIN e) |-> IF x \in DOMAIN e THEN e[x] ELSE d[x]]

----------------------------------------------------------------------------
(* The fixed vocabulary *)

postgres_variables ==
    [host |-> "PGHOST", hostaddr |-> "PGHOSTADDR", port |-> "PGPORT",
     database |-> "PGDATABASE", user |-> "PGUSER", password |-> "PGPASSWORD",
     passfile |-> "PGPASSFILE", service |-> "PGSERVICE", servicefile |-> "PGSERVICEFILE",
     kerberos_realm |-> "PGREALM", options |-> "PGOPTIONS", application_name |-> "PGAPPNAME",
     sslmode |-> "PGSSLMODE", requiressl |-> "PGREQUIRESSL", sslcompression |-> "PGSSLCOMPRESSION",
     sslcert |-> "PGSSLCERT", sslkey |-> "PGSSLKEY", sslrootcert |-> "PGSSLROOTCERT",
     sslcrl |-> "PGSSLCRL", requirepeer |-> "PGREQUIREPEER", krbsrvname |-> "PGKRBSRVNAME",
     gsslib |-> "PGGSSLIB", connect_timeout |-> "PGCONNECT_TIMEOUT",
     client_encoding |-> "PGCLIENTENCODING", datestyle |-> "PGDATESTYLE",
     timezone |-> "PGTZ", geqo |-> "PGGEQO", sysconfdir |-> "PGSYSCONFDIR",
     localedir |-> "PGLOCALEDIR", psql_path |-> "", prompt_for_password |-> "",
     warn_on_empty_password |-> "", output_to_newfile |-> "", files |-> ""]

\* a validation that lets every name through
try_validate_name_any(name) == TRUE

try_validate_name(name) == name \in DOMAIN postgres_variables

\* __validate_name raises ValueError for a name outside the vocabulary
validate_name(name) == IF try_validate_name(name) THEN "none" ELSE "ValueError"

----------------------------------------------------------------------------
(* Bounds of the model *)

\* the largest number of selections in the view
MaxSel == 2

WindowIds == {1, 2}

\* the window of the view the command is attached to
CmdWindow == 1

\* the names the settings API is called with: two of the vocabulary, one outside it
NameInputs == {"host", "password", "bogus"}

\* the encoding of the view, as run leaves it in self.encoding
Encoding == "UTF-8"

\* os.environ as the editor was started with
EnvironInputs == {EmptyDict, [PGCLIENTENCODING |-> "LATIN1"]}

\* the connection settings of the window when an invocation is dispatched
ConnInputs == {EmptyDict, [host |-> "a"], [client_encoding |-> "a"]}

----------------------------------------------------------------------------
(* PsqlSettings: the store of one window *)

\* The record of a call on the settings API: val is the value returned, or
\* the value written by setitem and set_user_specified
Called(op, w, name, err, val) == [op |-> op, w |-> w, name |-> name, err |-> err, val |-> val]

\* sublime's Settings.get(key): None for a key the backend does not have
settings_get(name) == IF name \in DOMAIN settings THEN settings[name] ELSE None

\* __contains__ on the working layer d, for a valid name
contains(d, name) == name \in DOMAIN d \/ Truthy(settings_get(name))

\* a lookup that backfills whatever the backend holds for the name, falsy or not
get_any_default(d, name) ==
    IF name \notin DOMAIN d /\ name \in DOMAIN settings
    THEN DictSet(d, name, settings_get(name))
    ELSE d

\* __get: the working layer after the lookup (a truthy persisted default is backfilled)
get(d, name) ==
    IF name \notin DOMAIN d /\ Truthy(settings_get(name))
    THEN DictSet(d, name, settings_get(name))
    ELSE d

\* __reload: the working layer becomes a copy of the session overrides
reload(w) == userspecified[w]

\* PsqlSettings(window=w): __new__ registers the store of w on first use and
\* returns the registered one afterwards; Python then runs __init__ on the
\* object __new__ returned, whether it is new or not.
PsqlSettings(w) ==
    /\ windows' = windows \cup {w}
    /\ stores' = stores \cup {w}
    /\ userspecified' = [userspecified EXCEPT ![w] = EmptyDict]
    /\ defaults' = [defaults EXCEPT ![w] = EmptyDict]
    /\ output_lock' = [output_lock EXCEPT ![w] = Free]
    /\ result' = Called("PsqlSettings", w, None, "none", None)
    /\ UNCHANGED <<settings, loaded>>
    /\ UNCHANGED cmdVars

window_closed(w) ==
    /\ windows' = windows \ {w}
    /\ result' = Called("window_closed", w, None, "none", None)
    /\ UNCHANGED <<settings, loaded, stores, defaults, userspecified, output_lock>>
    /\ UNCHANGED cmdVars

\* a callback that reloads the store of the command's window only
reload_one_window ==
    /\ loaded
    /\ defaults' = [w \in WindowIds |-> IF w \in windows /\ w = CmdWindow THEN reload(w) ELSE defaults[w]]
    /\ result' = Called("reload_all_windows", 0, None, "none", None)
    /\ UNCHANGED <<settings, loaded, windows, stores, userspecified, output_lock>>
    /\ UNCHANGED cmdVars

\* the 'reload' callback of the backend: registered by __get_settings, so it
\* can only run once the backend has been loaded
reload_all_windows ==
    /\ loaded
    /\ defaults' = [w \in WindowIds |-> IF w \in windows THEN reload(w) ELSE defaults[w]]
    /\ result' = Called("reload_all_windows", 0, None, "none", None)
    /\ UNCHANGED <<settings, loaded, windows, stores, userspecified, output_lock>>
    /\ UNCHANGED cmdVars

getitem(w, name) ==
    /\ w \in stores
    /\ IF validate_name(name) # "none"
       THEN /\ result' = Called("getitem", w, name, validate_name(name), None)
            /\ UNCHANGED <<defaults, loaded>>
       ELSE LET d == get(defaults[w], name) IN
            /\ defaults' = [defaults EXCEPT ![w] = d]
            /\ loaded' = (loaded \/ name \notin DOMAIN defaults[w])
            /\ result' = IF name \in DOMAIN d
                         THEN Called("getitem", w, name, "none", d[name])
                         ELSE Called("getitem", w, name, "KeyError", None)
    /\ UNCHANGED <<settings, windows, stores, userspecified, output_lock>>
    /\ UNCHANGED cmdVars

setitem(w, name, value) ==
    /\ w \in stores
    /\ IF validate_name(name) # "none"
       THEN /\ result' = Called("setitem", w, name, validate_name(name), None)
            /\ UNCHANGED defaults
       ELSE /\ defaults' = [defaults EXCEPT ![w] = DictSet(defaults[w], name, value)]
            /\ result' = Called("setitem", w, name, "none", value)
    /\ UNCHANGED <<settings, loaded, windows, stores, userspecified, output_lock>>
    /\ UNCHANGED cmdVars

delitem(w, name) ==
    /\ w \in stores
    /\ IF validate_name(name) # "none"
       THEN /\ result' = Called("delitem", w, name, validate_name(name), None)
            /\ UNCHANGED defaults
       ELSE IF name \notin DOMAIN defaults[w]
       THEN /\ result' = Called("delitem", w, name, "KeyError", None)
            /\ UNCHANGED defaults
       ELSE /\ defaults' = [defaults EXCEPT ![w] = DictDel(defaults[w], name)]
            /\ result' = Called("delitem", w, name, "none", None)
    /\ UNCHANGED <<settings, loaded, windows, stores, userspecified, output_lock>>
    /\ UNCHANGED cmdVars

\* `name in store`: the value returned is "True" or "False"
contains_call(w, name) ==
    /\ w \in stores
    /\ IF validate_name(name) # "none"
       THEN /\ result' = Called("contains", w, name, validate_name(name), None)
            /\ UNCHANGED loaded
       ELSE /\ loaded' = (loaded \/ name \notin DOMAIN defaults[w])
            /\ result' = Called("contains", w, name, "none",
                                IF contains(defaults[w], name) THEN "True" ELSE "False")
    /\ UNCHANGED <<settings, windows, stores, defaults, userspecified, output_lock>>
    /\ UNCHANGED cmdVars

set_user_specified(w, name, value) ==
    /\ w \in stores
    /\ IF validate_name(name) # "none"
       THEN /\ result' = Called("set_user_specified", w, name, validate_name(name), None)
            /\ UNCHANGED userspecified
       ELSE /\ userspecified' = [userspecified EXCEPT ![w] = DictSet(userspecified[w], name, value)]
            /\ result' = Called("set_user_specified", w, name, "none", value)
    /\ UNCHANGED <<settings, loaded, windows, stores, defaults, output_lock>>
    /\ UNCHANGED cmdVars

unset_user_specified(w, name) ==
    /\ w \in stores
    /\ IF validate_name(name) # "none"
       THEN /\ result' = Called("unset_user_specified", w, name, validate_name(name), None)
            /\ UNCHANGED userspecified
       ELSE /\ userspecified' = [userspecified EXCEPT ![w] = DictDel(userspecified[w], name)]
            /\ result' = Called("unset_user_specified", w, name, "none", None)
    /\ UNCHANGED <<settings, loaded, windows, stores, defaults, output_lock>>
    /\ UNCHANGED cmdVars

\* a save that persists the working layer instead of the session overrides
save_working_layer(w) ==
    /\ w \in stores
    /\ settings' = [k \in (DOMAIN settings) \cup (DOMAIN defaults[w]) |->
                       IF k \in DOMAIN defaults[w] THEN defaults[w][k] ELSE settings[k]]
    /\ loaded' = (loaded \/ DOMAIN defaults[w] # {})
    /\ userspecified' = [userspecified EXCEPT ![w] = EmptyDict]
    /\ defaults' = [defaults EXCEPT ![w] = EmptyDict]
    /\ result' = Called("save", w, None, "none", None)
    /\ UNCHANGED <<windows, stores, output_lock>>
    /\ UNCHANGED cmdVars

\* save: every session override is written to the backend under
\* 'default_'+name; if there was one, save_settings and then clear(), which
\* empties the overrides and reloads the working layer from them
save(w) ==
    /\ w \in stores
    /\ settings' = [k \in (DOMAIN settings) \cup (DOMAIN userspecified[w]) |->
                       IF k \in DOMAIN userspecified[w] THEN userspecified[w][k] ELSE settings[k]]
    /\ loaded' = (loaded \/ DOMAIN userspecified[w] # {})
    /\ IF DOMAIN userspecified[w] # {}
       THEN /\ userspecified' = [userspecified EXCEPT ![w] = EmptyDict]
            /\ defaults' = [defaults EXCEPT ![w] = EmptyDict]
       ELSE UNCHANGED <<userspecified, defaults>>
    /\ result' = Called("save", w, None, "none", None)
    /\ UNCHANGED <<windows, stores, output_lock>>
    /\ UNCHANGED cmdVars

clear(w) ==
    /\ w \in stores
    /\ userspecified' = [userspecified EXCEPT ![w] = EmptyDict]
    /\ defaults' = [defaults EXCEPT ![w] = EmptyDict]
    /\ result' = Called("clear", w, None, "none", None)
    /\ UNCHANGED <<settings, loaded, windows, stores, output_lock>>
    /\ UNCHANGED cmdVars

has_user_specified(w) == DOMAIN userspecified[w] # {}

----------------------------------------------------------------------------
(* PsqlCommand *)

NoSup == [pc |-> "none", thread_infos |-> <<>>, thread_total |-> 0, err |-> "none", line |-> 0,
          unit |-> 0, query_id |-> [kind |-> "none", name |-> "", ordinal |-> 0, total |-> 0]]

NoUi == [status |-> <<>>, input_panel |-> FALSE, output_panel |-> FALSE, panel_text |-> <<>>, views |-> <<>>]

Idle == [pc |-> "idle", handler |-> "none", err |-> "none", line |-> 0,
         kwargs |-> EmptyDict, password |-> None, dialog |-> "not asked"]

\* the explicit overrides an invocation is triggered with
KwargsInputs == {EmptyDict, [prompt_for_password |-> "a"]}

\* run, lines 218-221.  `self.settings = kwargs` assigns to the property
\* `settings` of PsqlBaseTextCommand, which has a getter only: the method
\* decorated with @settings.setter is called `function`, so the property
\* that has the setter is bound to the class attribute `function` and
\* `settings` keeps fset = None.  The assignment raises AttributeError and
\* run ends there, before the settings are read.  The exception goes to the
\* editor and the command object stays in place, so run can be invoked again.
run(kwargs) ==
    /\ cmd.pc \in {"idle", "raised"}
    /\ cmd' = [Idle EXCEPT !.pc = "raised", !.handler = "run", !.err = "AttributeError",
                           !.line = 221, !.kwargs = kwargs]
    /\ UNCHANGED <<env, ui, thread_infos, threads, sup>>
    /\ UNCHANGED storeVars

\* `name in self.settings and self.settings[name]` on the working layer d;
\* the working layer after it is get(d, name)
truthy_setting(d, name) == contains(d, name) /\ Truthy(get(d, name)[name])

\* line 242, on the working layer d
is_password_required(d) ==
    /\ truthy_setting(d, "prompt_for_password")
    /\ ~ contains(d, "passfile")
    /\ ~ contains(d, "service")
    /\ ~ env.pgpass

\* line 239
is_output_to_newfile(d) == truthy_setting(d, "output_to_newfile")

\* __run_with_password(password), lines 244-258; ok is the answer of
\* ok_cancel_dialog, should it be asked.  The handler calls self.set_status,
\* which PsqlCommand does not have (set_status is a function of the module):
\* the call raises AttributeError at line 247 when the user declines the
\* empty password, and at line 258 otherwise, after the output panel has
\* been created and before any thread is built.
run_with_password(handler, password, ok) ==
    LET w == CmdWindow
        d0 == defaults[w]
        required == ~ Truthy(password) /\ is_password_required(d0)
        d1 == IF Truthy(password) THEN d0 ELSE get(d0, "prompt_for_password")
        asked == required /\ truthy_setting(d1, "warn_on_empty_password")
        d2 == IF required THEN get(d1, "warn_on_empty_password") ELSE d1
        declined == asked /\ ~ ok
        d3 == IF ~ required /\ ~ contains(d2, "password")
              THEN DictSet(d2, "password", password) ELSE d2
        d4 == get(d3, "output_to_newfile")
        dialog == IF ~ asked THEN "not asked" ELSE IF ok THEN "ok" ELSE "cancel"
        \* __get_settings runs when `in` finds a name missing from the working layer
        loads == \/ ~ Truthy(password) /\ "prompt_for_password" \notin DOMAIN d0
                 \/ ~ Truthy(password) /\ truthy_setting(d0, "prompt_for_password")
                      /\ "passfile" \notin DOMAIN d1
                 \/ ~ Truthy(password) /\ truthy_setting(d0, "prompt_for_password")
                      /\ ~ contains(d1, "passfile") /\ "service" \notin DOMAIN d1
                 \/ required /\ "warn_on_empty_password" \notin DOMAIN d1
                 \/ ~ required /\ "password" \notin DOMAIN d2
                 \/ ~ declined /\ "output_to_newfile" \notin DOMAIN d3
    IN  /\ cmd.pc = "idle"
        /\ w \in stores
        /\ loaded' = (loaded \/ loads)
        /\ IF declined
           THEN /\ defaults' = [defaults EXCEPT ![w] = d2]
                /\ cmd' = [Idle EXCEPT !.pc = "raised", !.handler = handler, !.err = "AttributeError",
                                       !.line = 247, !.password = password, !.dialog = dialog]
                /\ ui' = ui
           ELSE /\ defaults' = [defaults EXCEPT ![w] = d4]
                /\ cmd' = [Idle EXCEPT !.pc = "raised", !.handler = handler, !.err = "AttributeError",
                                       !.line = 258, !.password = password, !.dialog = dialog]
                /\ ui' = IF is_output_to_newfile(d3) THEN ui
                         ELSE [ui EXCEPT !.output_panel = TRUE, !.panel_text = <<>>]
        /\ UNCHANGED <<settings, windows, stores, userspecified, output_lock, result>>
        /\ UNCHANGED <<env, thread_infos, threads, sup>>

\* a cancellation that ends the invocation on the spot
cancelled_stops(ok) ==
    /\ cmd.pc = "idle"
    /\ cmd' = [Idle EXCEPT !.pc = "returned", !.handler = "cancelled", !.line = 247]
    /\ UNCHANGED storeVars
    /\ UNCHANGED <<env, ui, thread_infos, threads, sup>>

\* __cancelled, lines 235-236: the on_cancel callback of the input panel
cancelled(ok) == run_with_password("cancelled", None, ok)

----------------------------------------------------------------------------
(* Work units: lines 259-291 of __run_with_password *)

\* a file path is the sequence of its components; NoFile stands for a
\* thread_info without the key 'file'
NoFile == <<>>

PathA == <<"sql", "a.sql">>

PathB == <<"sql", "b.sql">>

\* the list a value of the setting 'files' stands for
files_of(value) == IF value = "a" THEN <<PathA, PathB>> ELSE <<>>

\* os.path.split: the directory and the last component
split(path) == <<SubSeq(path, 1, Len(path) - 1), path[Len(path)]>>

RECURSIVE file_infos(_, _)
\* lines 263-267: one thread_info per listed file that is on disk
file_infos(files, disk) ==
    IF files = <<>> THEN <<>>
    ELSE IF Head(files) \in disk
         THEN <<[file |-> Head(files), thread_num |-> 0, query |-> 0]>> \o file_infos(Tail(files), disk)
         ELSE file_infos(Tail(files), disk)

RECURSIVE query_infos(_, _, _)
\* lines 271-278: one thread_info per non-empty selection, numbered in
\* document order; a selection is the text it covers, query its position
query_infos(sel, pos, thread_num) ==
    IF pos > Len(sel) THEN <<>>
    ELSE IF sel[pos] # ""
         THEN <<[file |-> NoFile, thread_num |-> thread_num + 1, query |-> pos]>>
              \o query_infos(sel, pos + 1, thread_num + 1)
         ELSE query_infos(sel, pos + 1, thread_num)

\* lines 259-285 on the working layer d: query 0 is the whole document
build_thread_infos(d, sel, disk) ==
    IF contains(d, "files")
    THEN file_infos(files_of(get(d, "files")["files"]), disk)
    ELSE IF query_infos(sel, 1, 0) # <<>>
         THEN query_infos(sel, 1, 0)
         ELSE <<[file |-> NoFile, thread_num |-> 1, query |-> 0]>>

\* thread_num as line 291 passes it on: the number of thread_infos
thread_total_of(infos) == Len(infos)

----------------------------------------------------------------------------
(* __PostgresQueryExecute: the worker thread of one work unit *)

DefaultPsqlPath == "/usr/bin/psql"

\* the text a worker hands to __output, in the pieces the panel receives
output_text(i) == <<<<i, 1>>, <<i, 2>>>>

\* run, lines 356-389.  Line 360 stores the default psql_path in the
\* settings when they have none.  Line 363 reads
\* self.parent.settings.postgres_variables, a property whose getter is a
\* staticmethod object wrapping a function that refers to the undefined
\* global _PsqlSettings__postgres_variables: reading it raises (TypeError
\* where staticmethod objects are not callable, NameError elsewhere), inside
\* the try.  The except clause turns that into retcode 1 and the traceback
\* as output_text, and line 389 schedules __output with them.  The dictionary
\* `environment` is still the copy of os.environ that line 361 made, and
\* Popen has not been called.
thread_run(i) ==
    LET w == CmdWindow
        d == defaults[w]
    IN  /\ i \in DOMAIN threads
        /\ threads[i].pc = "started"
        /\ defaults' = [defaults EXCEPT ![w] =
                           IF contains(d, "psql_path") THEN get(d, "psql_path")
                           ELSE DictSet(d, "psql_path", DefaultPsqlPath)]
        /\ loaded' = (loaded \/ "psql_path" \notin DOMAIN d)
        /\ threads' = [threads EXCEPT ![i] = [pc |-> "scheduled", errored |-> TRUE, retcode |-> 1,
                                              written |-> 0, environment |-> env.environ,
                                              spawned |-> FALSE]]
        /\ UNCHANGED <<settings, windows, stores, userspecified, output_lock, result>>
        /\ UNCHANGED <<env, cmd, ui, thread_infos, sup>>

\* an acquire that takes the lock without waiting for it
acquire_without_waiting(w, i) == output_lock' = [output_lock EXCEPT ![w] = i]

\* threading.Lock.acquire by worker i: blocks until the lock is free
acquire(w, i) == output_lock[w] = Free /\ output_lock' = [output_lock EXCEPT ![w] = i]

\* __output, lines 344-350.  set_timeout hands the call to the editor; the
\* model does not assume that the editor runs such calls one at a time, so
\* the calls of different workers interleave at every step.  With
\* output_to_newfile a new view receives the whole text; otherwise the
\* worker goes for the output lock of the store.
output(i) ==
    LET w == CmdWindow
        d == defaults[w]
    IN  /\ i \in DOMAIN threads
        /\ threads[i].pc = "scheduled"
        /\ defaults' = [defaults EXCEPT ![w] = get(d, "output_to_newfile")]
        /\ loaded' = (loaded \/ "output_to_newfile" \notin DOMAIN d)
        /\ IF is_output_to_newfile(d)
           THEN /\ ui' = [ui EXCEPT !.views = Append(@, output_text(i))]
                /\ threads' = [threads EXCEPT ![i].pc = "done"]
                /\ UNCHANGED output_lock
           ELSE /\ threads' = [threads EXCEPT ![i].pc = "acquire"]
                /\ UNCHANGED <<ui, output_lock>>
        /\ UNCHANGED <<settings, windows, stores, userspecified, result>>
        /\ UNCHANGED <<env, cmd, thread_infos, sup>>

\* line 351: self.parent.settings.output_lock.acquire()
output_acquire(i) ==
    /\ i \in DOMAIN threads
    /\ threads[i].pc = "acquire"
    /\ acquire(CmdWindow, i)
    /\ threads' = [threads EXCEPT ![i].pc = "append"]
    /\ UNCHANGED <<settings, loaded, windows, stores, defaults, userspecified, result>>
    /\ UNCHANGED <<env, cmd, ui, thread_infos, sup>>

\* line 352: the panel receives the text, piece by piece; without a panel
\* (self.parent.output_panel was never assigned) the line raises
\* AttributeError and the lock stays held
append(i) ==
    /\ i \in DOMAIN threads
    /\ threads[i].pc = "append"
    /\ IF ~ ui.output_panel
       THEN /\ threads' = [threads EXCEPT ![i].pc = "raised"]
            /\ UNCHANGED ui
       ELSE /\ ui' = [ui EXCEPT !.panel_text = Append(@, output_text(i)[threads[i].written + 1])]
            /\ threads' = [threads EXCEPT ![i].written = @ + 1,
                                          ![i].pc = IF threads[i].written + 1 = Len(output_text(i))
                                                    THEN "release" ELSE "append"]
    /\ UNCHANGED storeVars
    /\ UNCHANGED <<env, cmd, thread_infos, sup>>

\* lines 353-354: show the panel, release the lock
release(i) ==
    /\ i \in DOMAIN threads
    /\ threads[i].pc = "release"
    /\ output_lock' = [output_lock EXCEPT ![CmdWindow] = Free]
    /\ threads' = [threads EXCEPT ![i].pc = "done"]
    /\ UNCHANGED <<settings, loaded, windows, stores, defaults, userspecified, result>>
    /\ UNCHANGED <<env, cmd, ui, thread_infos, sup>>

\* Thread.is_alive: from start() until run has returned
is_alive(i) == threads[i].pc = "started"

----------------------------------------------------------------------------
(* __PostgresQueryHandleExecution: the thread that reports completions *)

Label(kind, name, ordinal, total) == [kind |-> kind, name |-> name, ordinal |-> ordinal, total |-> total]

\* lines 307-311: the label of a finished unit.  For a query unit with
\* thread_num # 1 and thread_total # 1 the expression adds an int to a str,
\* which raises TypeError; in every other case the label is 'query '.
query_id(thread_info, thread_total) ==
    IF thread_info.file # NoFile
    THEN [err |-> "none", label |-> Label("file", split(thread_info.file)[2], 0, 0)]
    ELSE IF thread_info.thread_num # 1 /\ thread_total # 1
         THEN [err |-> "TypeError", label |-> Label("none", "", 0, 0)]
         ELSE [err |-> "none", label |-> Label("query", "", 0, 0)]

\* the first of the held thread_infos whose thread is no longer alive, 0 if none
first_finished(held) ==
    IF \E k \in 1..Len(held) : ~ is_alive(held[k])
    THEN CHOOSE k \in 1..Len(held) : ~ is_alive(held[k]) /\ \A j \in 1..(k - 1) : is_alive(held[j])
    ELSE 0

\* run, lines 299-315, one tick.  The loop keeps the thread_infos whose thread
\* is alive; at the first one that is not it builds the label and calls
\* self.set_status, which a Thread does not have: the tick ends there with
\* TypeError (line 311) or AttributeError (line 312), nothing is reported
\* and nothing is re-armed.  With every thread alive it re-arms with the same
\* thread_infos; with none held it stops.  sup.thread_infos holds the indices
\* into thread_infos.
sup_run ==
    LET held == sup.thread_infos
        k == first_finished(held)
    IN  /\ sup.pc = "started"
        /\ IF k # 0
           THEN LET q == query_id(thread_infos[held[k]], sup.thread_total)
                IN  sup' = [sup EXCEPT !.pc = "raised",
                                       !.err = IF q.err # "none" THEN q.err ELSE "AttributeError",
                                       !.line = IF q.err # "none" THEN 311 ELSE 312,
                                       !.unit = held[k],
                                       !.query_id = q.label]
           ELSE IF Len(held) > 0
           THEN sup' = sup
           ELSE sup' = [sup EXCEPT !.pc = "done"]
        /\ UNCHANGED storeVars
        /\ UNCHANGED <<env, cmd, ui, thread_infos, threads>>

----------------------------------------------------------------------------
(* The program as the editor drives it *)

\* the persisted settings file as the program finds it
EnvInputs == [sel : {<<>>}, pgpass : BOOLEAN, disk : {{}}, environ : {EmptyDict}, encoding : {Encoding}]

Init ==
    /\ settings \in {EmptyDict, [host |-> "b"]}
    /\ loaded = FALSE
    /\ windows = {}
    /\ stores = {}
    /\ defaults = [w \in WindowIds |-> EmptyDict]
    /\ userspecified = [w \in WindowIds |-> EmptyDict]
    /\ output_lock = [w \in WindowIds |-> Free]
    /\ result = Called("none", 0, None, "none", None)
    /\ env \in EnvInputs
    /\ cmd = Idle
    /\ ui = NoUi
    /\ thread_infos = <<>>
    /\ threads = <<>>
    /\ sup = NoSup

Next ==
    \/ PsqlSettings(CmdWindow)
    \/ window_closed(CmdWindow)
    \/ reload_all_windows
    \/ save(CmdWindow)
    \/ clear(CmdWindow)
    \/ \E name \in NameInputs : getitem(CmdWindow, name)
    \/ \E name \in NameInputs : delitem(CmdWindow, name)
    \/ \E name \in NameInputs : contains_call(CmdWindow, name)
    \/ \E name \in NameInputs : unset_user_specified(CmdWindow, name)
    \/ \E name \in NameInputs, value \in Values : setitem(CmdWindow, name, value)
    \/ \E name \in NameInputs, value \in Values : set_user_specified(CmdWindow, name, value)
    \/ \E kwargs \in KwargsInputs : run(kwargs)

Spec == Init /\ [][Next]_vars

----------------------------------------------------------------------------
(* The handlers of PsqlCommand, each entered with the store of its window in
   any state: __run_with_password as run (line 233) and the input panel
   (on_done) call it, __cancelled as the input panel (on_cancel) calls it.
   One handler runs in a behaviour. *)

\* every dictionary over some of the names
Dicts(names) == UNION {[S -> Values] : S \in SUBSET names}

\* the selections of the view: "" is an empty region, "q" a region with text
SelInputs == UNION {[1..n -> {"", "q"}] : n \in 0..MaxSel}

HandlerNames == {"prompt_for_password", "warn_on_empty_password", "passfile", "service",
                 "password", "output_to_newfile"}

PasswordInputs == {None, "", "a"}

HandlersInit ==
    /\ settings \in {EmptyDict, [prompt_for_password |-> "a", warn_on_empty_password |-> "a"]}
    /\ loaded = FALSE
    /\ windows = {CmdWindow}
    /\ stores = {CmdWindow}
    /\ defaults \in {[w \in WindowIds |-> IF w = CmdWindow THEN d ELSE EmptyDict] : d \in Dicts(HandlerNames)}
    /\ userspecified = [w \in WindowIds |-> EmptyDict]
    /\ output_lock = [w \in WindowIds |-> Free]
    /\ result = Called("none", 0, None, "none", None)
    /\ env \in [sel : SelInputs, pgpass : BOOLEAN, disk : {{}}, environ : {EmptyDict}, encoding : {Encoding}]
    /\ cmd = Idle
    /\ ui = NoUi
    /\ thread_infos = <<>>
    /\ threads = <<>>
    /\ sup = NoSup

HandlersNext ==
    \E ok \in BOOLEAN :
        \/ \E password \in PasswordInputs : run_with_password("run_with_password", password, ok)
        \/ cancelled(ok)

SpecHandlers == HandlersInit /\ [][HandlersNext]_vars

----------------------------------------------------------------------------
(* The threads of one invocation, from the state lines 287-291 leave: the
   thread_infos built from the settings, the selections and the disk, every
   worker thread started, the reporting thread started on all of them *)

ThreadsInit ==
    /\ settings \in {EmptyDict, [output_to_newfile |-> "a"]}
    /\ loaded = TRUE
    /\ windows = {CmdWindow}
    /\ stores = {CmdWindow}
    /\ \E d \in Dicts({"output_to_newfile", "files"}), c \in ConnInputs :
          defaults = [w \in WindowIds |-> IF w = CmdWindow THEN get(Merge(d, c), "output_to_newfile")
                                           ELSE EmptyDict]
    /\ userspecified = [w \in WindowIds |-> EmptyDict]
    /\ output_lock = [w \in WindowIds |-> Free]
    /\ result = Called("none", 0, None, "none", None)
    /\ env \in [sel : SelInputs, pgpass : {FALSE}, disk : SUBSET {PathA, PathB},
                 environ : EnvironInputs, encoding : {Encoding}]
    /\ cmd = [Idle EXCEPT !.pc = "returned", !.handler = "run_with_password", !.line = 291]
    /\ ui = [NoUi EXCEPT !.output_panel = ~ is_output_to_newfile(defaults[CmdWindow])]
    /\ thread_infos = build_thread_infos(defaults[CmdWindow], env.sel, env.disk)
    /\ threads = [i \in 1..Len(thread_infos) |-> [pc |-> "started", errored |-> FALSE, retcode |-> 0,
                                                   written |-> 0, environment |-> EmptyDict,
                                                   spawned |-> FALSE]]
    /\ sup = [NoSup EXCEPT !.pc = "started",
                           !.thread_infos = [i \in 1..Len(thread_infos) |-> i],
                           !.thread_total = thread_total_of(thread_infos)]

\* as many thread ids as an invocation can have: one per selection, or one per listed file
ThreadIds == 1..(MaxSel + Len(files_of("a")))

ThreadsNext ==
    \/ \E i \in ThreadIds :
          \/ thread_run(i)
          \/ output(i)
          \/ output_acquire(i)
          \/ append(i)
          \/ release(i)
    \/ sup_run

SpecThreads == ThreadsInit /\ [][ThreadsNext]_vars

----------------------------------------------------------------------------
(* What a caller observes *)

\* what store[name] returns in the current state: the value, or "KeyError"
Got(w, name) ==
    LET d == get(defaults[w], name)
    IN  IF name \in DOMAIN d THEN d[name] ELSE "KeyError"

\* the settings an invocation is meant to resolve: its kwargs on top of the store
Resolved(w, kwargs) ==
    [k \in (DOMAIN defaults[w]) \cup (DOMAIN kwargs) |->
        IF k \in DOMAIN kwargs THEN kwargs[k] ELSE defaults[w][k]]

----------------------------------------------------------------------------
(* Settings store: names outside the vocabulary *)

\* C1: a call of getitem, setitem, delitem, contains, set_user_specified or
\* unset_user_specified with a name outside the fixed vocabulary raises
\* ValueError, and the working layer, the session overrides and the
\* persisted backend are the same after the call as before it.
C1_InvalidNameRejected ==
    [][(result'.op \in {"getitem", "setitem", "delitem", "contains",
                        "set_user_specified", "unset_user_specified"}
        /\ result'.name \notin DOMAIN postgres_variables)
       => (/\ result'.err = "ValueError"
           /\ defaults' = defaults
           /\ userspecified' = userspecified
           /\ settings' = settings)]_vars

\* a name outside the vocabulary has been refused by delitem while all three layers hold entries
C1_Witness ==
    /\ result.op = "delitem"
    /\ result.name = "bogus"
    /\ result.err = "ValueError"
    /\ DOMAIN defaults[CmdWindow] # {}
    /\ DOMAIN userspecified[CmdWindow] # {}
    /\ DOMAIN settings # {}

----------------------------------------------------------------------------
(* Settings store: precedence *)

\* C2: with a persisted default, a session override and an explicit value
\* present for a name, store[name] returns the explicit value; when the
\* explicit value is then deleted, store[name] returns the session override;
\* and when the override is unset after that, store[name] returns the
\* persisted default.
C2_Precedence ==
    [][\A w \in WindowIds, n \in DOMAIN postgres_variables :
        LET all_three == /\ result.op = "setitem" /\ result.err = "none"
                         /\ result.w = w /\ result.name = n
                         /\ n \in DOMAIN userspecified[w]
                         /\ Truthy(settings_get(n))
            removed == /\ result.op = "delitem" /\ result.err = "none"
                       /\ result.w = w /\ result.name = n
                       /\ Truthy(settings_get(n))
        IN  /\ all_three => Got(w, n) = result.val
            /\ (all_three /\ result'.op = "delitem" /\ result'.w = w /\ result'.name = n)
                  => Got(w, n)' = userspecified[w][n]
            /\ (removed /\ result'.op = "unset_user_specified" /\ result'.w = w /\ result'.name = n)
                  => Got(w, n)' = settings_get(n)]_vars

----------------------------------------------------------------------------
(* Settings store: save *)

\* what save is to leave in the backend: the session overrides of w written over it
Persisted(w) ==
    [k \in (DOMAIN settings) \cup (DOMAIN userspecified[w]) |->
        IF k \in DOMAIN userspecified[w] THEN userspecified[w][k] ELSE settings[k]]

\* C3 as stated: save writes exactly the session overrides to the backend and
\* leaves the override layer empty, and store[name] then returns the value
\* just persisted for every name that was overridden, whatever the value.
C3_SaveAnyValue ==
    [][\A w \in WindowIds : (result'.op = "save" /\ result'.w = w) =>
            /\ settings' = Persisted(w)
            /\ ~ has_user_specified(w)'
            /\ \A n \in DOMAIN userspecified[w] : Got(w, n)' = userspecified[w][n]]_vars

\* C3 (amended): save writes exactly the session overrides to the backend
\* (nothing that is only in the working layer) and leaves the override layer
\* empty; store[name] then returns the value just persisted for every name
\* that was overridden with a truthy value, and raises KeyError for a name
\* overridden with a falsy value.
C3_SaveTruthy ==
    [][\A w \in WindowIds : (result'.op = "save" /\ result'.w = w) =>
            /\ settings' = Persisted(w)
            /\ ~ has_user_specified(w)'
            /\ \A n \in DOMAIN userspecified[w] :
                  Got(w, n)' = IF Truthy(userspecified[w][n]) THEN userspecified[w][n] ELSE "KeyError"]_vars

\* save has just moved a truthy override of password into the backend, while
\* the explicit host of the working layer was not written
C3_Witness ==
    /\ result.op = "save"
    /\ "password" \in DOMAIN settings
    /\ settings["password"] = "a"
    /\ "host" \notin DOMAIN settings
    /\ ~ has_user_specified(CmdWindow)
    /\ Got(CmdWindow, "password") = "a"

----------------------------------------------------------------------------
(* Dispatcher: password gating *)

\* C4: once run has ended its synchronous part: if the resolved settings hold
\* no password and a password is required, the input panel has been asked for
\* a password and no worker thread exists; otherwise run has gone on to
\* __run_with_password without asking.
C4_PasswordGating ==
    (cmd.handler = "run" /\ cmd.pc # "idle") =>
        LET r == Resolved(CmdWindow, cmd.kwargs)
        IN  IF ~ contains(r, "password") /\ is_password_required(r)
            THEN ui.input_panel /\ threads = <<>>
            ELSE ~ ui.input_panel /\ cmd.line \notin {221, 230}

----------------------------------------------------------------------------
(* Dispatcher: work units *)

\* the number of non-empty selections of the view
NonEmpty(sel) == Cardinality({p \in 1..Len(sel) : sel[p] # ""})

\* C5: once __run_with_password has ended and the user has not declined, the
\* worker threads are: with k >= 1 non-empty selections exactly k threads,
\* numbered 1..k in document order, whatever the setting 'files'; with no
\* non-empty selection and no 'files', exactly one thread on the whole
\* document.
C5_Partition ==
    (cmd.handler \in {"run_with_password", "cancelled"} /\ cmd.pc # "idle" /\ cmd.dialog # "cancel") =>
        LET k == NonEmpty(env.sel)
        IN  IF k >= 1
            THEN /\ Len(thread_infos) = k
                 /\ DOMAIN threads = 1..k
                 /\ \A i \in 1..k : thread_infos[i].thread_num = i /\ thread_infos[i].file = NoFile
            ELSE ~ contains(defaults[CmdWindow], "files") =>
                 /\ Len(thread_infos) = 1
                 /\ DOMAIN threads = {1}
                 /\ thread_infos[1].query = 0

----------------------------------------------------------------------------
(* Worker threads and the reporting thread *)

\* the completion notifications the editor has shown for unit i
Notifications(i) == {k \in 1..Len(ui.status) : ui.status[k].unit = i}

\* the pieces of the text of worker i lie next to each other, in order, in the output panel
Intact(i) ==
    \E k \in 1..Len(ui.panel_text) :
        /\ k + Len(output_text(i)) - 1 <= Len(ui.panel_text)
        /\ SubSeq(ui.panel_text, k, k + Len(output_text(i)) - 1) = output_text(i)

\* C6: when every worker has delivered and the reporting thread has come to
\* rest, a worker that failed has delivered one result with a nonzero code
\* and has not raised, and every worker of the invocation has got exactly
\* one completion notification.
C6_FailureIsolation ==
    ((\A i \in DOMAIN threads : threads[i].pc = "done") /\ sup.pc \in {"done", "raised"}) =>
        \A i \in DOMAIN threads :
            /\ threads[i].errored => threads[i].retcode # 0
            /\ Cardinality(Notifications(i)) = 1

\* the workers that are between acquiring and releasing the output lock
Appending == {i \in DOMAIN threads : threads[i].pc \in {"append", "release"}}

\* C7: at most one worker is appending to the output panel at any time; the
\* worker that is appending holds the output lock of the store and a worker
\* that is not appending does not hold it; the pieces a worker has written
\* lie next to each other in the panel, each once, and the text of a worker
\* that has finished is in the panel whole.
C7_SharedRegionExclusive ==
    /\ Cardinality(Appending) <= 1
    /\ \A i \in DOMAIN threads :
          /\ (i \in Appending) <=> (output_lock[CmdWindow] = i)
          /\ Cardinality({k \in 1..Len(ui.panel_text) : ui.panel_text[k][1] = i}) = threads[i].written
          /\ threads[i].written > 0 =>
                \E k \in 1..Len(ui.panel_text) :
                    SubSeq(ui.panel_text, k, k + threads[i].written - 1)
                        = SubSeq(output_text(i), 1, threads[i].written)
          /\ (threads[i].pc = "done" /\ ui.output_panel) => Intact(i)

\* two workers have gone for the panel at once: one holds the lock half way
\* through its text, the other waits for the lock
C7_Witness ==
    \E i, j \in DOMAIN threads :
        /\ threads[i].pc = "append"
        /\ threads[i].written = 1
        /\ threads[j].pc = "acquire"

\* the label the claim gives a finished unit
ExpectedLabel(thread_info, thread_total) ==
    IF thread_info.file # NoFile
    THEN Label("file", thread_info.file[Len(thread_info.file)], 0, 0)
    ELSE IF thread_total = 1
         THEN Label("query", "", 0, 0)
         ELSE Label("query", "", thread_info.thread_num, thread_total)

\* C8: the label the reporting thread builds for a finished unit is
\* "file <basename>" for a file unit, "query" for the only unit of an
\* invocation, and "query <ordinal>/<total>" for every unit, the first
\* included, of an invocation of several units.
C8_CompletionLabel ==
    sup.unit # 0 =>
        /\ sup.err # "TypeError"
        /\ sup.query_id = ExpectedLabel(thread_infos[sup.unit], sup.thread_total)

----------------------------------------------------------------------------
(* Dispatcher: empty password and cancellation *)

\* the handler has found the password empty and required, with warn_on_empty_password set
\* (reading the settings does not change what these lookups return)
EmptyPasswordWarned ==
    /\ ~ Truthy(cmd.password)
    /\ is_password_required(defaults[CmdWindow])
    /\ truthy_setting(defaults[CmdWindow], "warn_on_empty_password")

\* C9: once __run_with_password has ended: the confirmation was asked
\* exactly when the password was empty and required and
\* warn_on_empty_password set; and if the user declined, the handler has
\* ended normally with one status notification, no output panel has been
\* written, and neither a worker thread nor a reporting thread exists.
C9_EmptyPasswordDeclined ==
    (cmd.handler \in {"run_with_password", "cancelled"} /\ cmd.pc # "idle") =>
        /\ (cmd.dialog # "not asked") <=> EmptyPasswordWarned
        /\ cmd.dialog = "cancel" =>
              /\ cmd.err = "none"
              /\ Len(ui.status) = 1
              /\ ~ ui.output_panel
              /\ threads = <<>>
              /\ sup.pc = "none"

\* C10 as stated: once the input panel has been cancelled, the handler has
\* stopped short: nothing has been prepared for output and no worker thread
\* exists.
C10_CancelShortCircuits ==
    (cmd.handler = "cancelled" /\ cmd.pc # "idle") =>
        /\ cmd.line = 247
        /\ ~ ui.output_panel
        /\ threads = <<>>

\* C10 (amended): once the input panel has been cancelled, the handler has
\* gone on as for an empty password: it has stopped short, at line 247,
\* exactly when the password was required, warn_on_empty_password was set and
\* the user declined the confirmation; otherwise it has gone on to line 258,
\* with the output panel created unless output_to_newfile is set; in both
\* cases no worker thread exists when the handler ends.
C10_CancelIsEmptyPassword ==
    (cmd.handler = "cancelled" /\ cmd.pc # "idle") =>
        /\ cmd.password = None
        /\ (cmd.line = 247) <=> (EmptyPasswordWarned /\ cmd.dialog = "cancel")
        /\ cmd.line # 247 =>
              /\ cmd.line = 258
              /\ ui.output_panel <=> ~ is_output_to_newfile(defaults[CmdWindow])
        /\ threads = <<>>

\* the input panel was cancelled while a password was required, and the
\* handler went on to create the output panel
C10_Witness ==
    /\ cmd.handler = "cancelled"
    /\ is_password_required(defaults[CmdWindow])
    /\ cmd.line = 258
    /\ ui.output_panel

----------------------------------------------------------------------------
(* Settings store: session overrides and reload *)

\* C11: right after set_user_specified(name, v) or unset_user_specified(name)
\* on a valid name, the working layer is a copy of the session overrides; so
\* store[name] right after set_user_specified(name, v) returns v, and a value
\* set earlier with store[n] = x is no longer in the working layer.
C11_OverrideReloads ==
    [][\A w \in WindowIds :
          (/\ result'.op \in {"set_user_specified", "unset_user_specified"}
           /\ result'.err = "none"
           /\ result'.w = w)
          => /\ defaults'[w] = userspecified'[w]
             /\ \A n \in DOMAIN postgres_variables :
                   (result'.op = "set_user_specified" /\ result'.name = n)
                      => Got(w, n)' = result'.val]_vars

----------------------------------------------------------------------------
(* Several windows, and a settings file that changes under the program *)

\* The settings file is edited outside the program: the Settings object
\* that load_settings (line 128) returned reads the new value from then on.
\* The change notification is the 'reload' callback, reload_all_windows.
settings_changed(name, value) ==
    /\ settings' = DictSet(settings, name, value)
    /\ UNCHANGED <<loaded, windows, stores, defaults, userspecified, output_lock, result>>
    /\ UNCHANGED cmdVars

\* the values the settings file is edited to
FileValues == {"", "b", "c"}

WindowsNext ==
    \/ \E w \in WindowIds :
          \/ PsqlSettings(w)
          \/ window_closed(w)
          \/ save(w)
          \/ getitem(w, "host")
          \/ delitem(w, "host")
          \/ contains_call(w, "host")
          \/ set_user_specified(w, "host", "a")
          \/ \E value \in Values : setitem(w, "host", value)
    \/ reload_all_windows
    \/ \E value \in FileValues : settings_changed("host", value)

SpecWindows == Init /\ [][WindowsNext]_vars

\* C12: a change notification of the backend resets the working layer of
\* every store in the registry to a copy of that store's session overrides,
\* so that no registered store keeps a backfilled default; the store of a
\* closed window is not touched; no session override changes.
C12_ChangeBroadcast ==
    [][(result'.op = "reload_all_windows" /\ settings' = settings) =>
          /\ \A w \in windows : defaults'[w] = userspecified[w]
          /\ \A w \in WindowIds \ windows : defaults'[w] = defaults[w]
          /\ userspecified' = userspecified
          /\ windows' = windows]_vars

\* the notification has come while window 1 was registered and window 2 had
\* been closed: the store of window 1 is back at its session override of
\* host, the store of window 2 still carries the default it had backfilled
\* before the settings file was edited
C12_Witness ==
    /\ result.op = "reload_all_windows"
    /\ windows = {1}
    /\ 2 \in stores
    /\ userspecified[1] = [host |-> "a"]
    /\ defaults[1] = userspecified[1]
    /\ "host" \in DOMAIN defaults[2]
    /\ defaults[2]["host"] = "b"
    /\ settings_get("host") = "c"

----------------------------------------------------------------------------
(* Settings store: one store per window *)

\* C18: PsqlSettings(window=w) for a window that has a store in the registry
\* returns that store and changes neither its session overrides, nor its
\* working layer, nor its output lock; only a lookup for a window without a
\* store in the registry creates and initialises one.
C18_LookupKeepsStore ==
    [][\A w \in WindowIds :
          (result'.op = "PsqlSettings" /\ result'.w = w /\ w \in windows)
          => /\ userspecified'[w] = userspecified[w]
             /\ defaults'[w] = defaults[w]
             /\ output_lock'[w] = output_lock[w]]_vars

----------------------------------------------------------------------------
(* Settings store: lookups *)

\* C19: for a name of the vocabulary, store[name] returns a value exactly
\* when `name in store` is true, that is when the name is in the working
\* layer or has a truthy persisted default; when it is false, store[name]
\* raises KeyError, not ValueError, and leaves the working layer as it was;
\* and a second store[name] with no set, delete or reload since the first
\* returns what the first returned, also when the persisted default has been
\* changed in between.
C19_LookupAgreesWithContains ==
    [][\A w \in WindowIds, n \in DOMAIN postgres_variables :
          (result'.op = "getitem" /\ result'.w = w /\ result'.name = n /\ settings' = settings)
          => /\ (result'.err = "none") <=> contains(defaults[w], n)
             /\ ~ contains(defaults[w], n) => (result'.err = "KeyError" /\ defaults' = defaults)
             /\ (result.op = "getitem" /\ result.w = w /\ result.name = n /\ result.err = "none")
                   => (result'.err = "none" /\ result'.val = result.val)]_vars

\* store['host'] has returned the default it had backfilled, 'b', after the
\* settings file was edited to 'c'
C19_Witness ==
    /\ result.op = "getitem"
    /\ result.err = "none"
    /\ result.val = "b"
    /\ result.w = CmdWindow
    /\ settings_get("host") = "c"
    /\ userspecified[CmdWindow] = EmptyDict

----------------------------------------------------------------------------
(* The reporting thread *)

\* the units a reporting thread holds
Held(s) == {s.thread_infos[k] : k \in 1..Len(s.thread_infos)}

\* C13: a tick of the reporting thread leaves it holding exactly the units
\* it held whose worker is still alive; a unit is never reported twice and
\* never while its worker is alive; and the reporting thread has stopped,
\* for whatever reason, only with no unit left and every unit of the
\* invocation reported once.
C13_SupervisorSafety ==
    [][/\ sup' # sup => Held(sup') = {i \in Held(sup) : is_alive(i)}
       /\ \A i \in DOMAIN threads' :
             /\ Cardinality(Notifications(i)') <= 1
             /\ Notifications(i)' # {} => ~ is_alive(i)'
       /\ sup'.pc # "started" =>
             /\ Held(sup') = {}
             /\ \A i \in DOMAIN threads' : Cardinality(Notifications(i)') = 1]_vars

\* The threads under the scheduling the program gets: the reporting thread
\* and the calls handed to the editor with set_timeout are run when they can
\* be; a worker thread may stay in its psql process for ever.
SpecThreadsFair ==
    /\ SpecThreads
    /\ WF_vars(sup_run)
    /\ \A i \in ThreadIds :
          WF_vars(output(i)) /\ WF_vars(output_acquire(i)) /\ WF_vars(append(i)) /\ WF_vars(release(i))

\* C14: __run_with_password has returned while the workers run, and every
\* worker that has finished is reported in the end, whether or not the other
\* workers of the invocation ever finish.
C14_SupervisorLiveness ==
    /\ [](cmd.pc = "returned")
    /\ \A i \in ThreadIds :
          (i \in DOMAIN threads /\ ~ is_alive(i)) ~> (Notifications(i) # {})

----------------------------------------------------------------------------
(* The environment of the psql process *)

ClientEncodingName == postgres_variables["client_encoding"]

\* what the pass over the settings is to export: the external name of every
\* name of the vocabulary that has one and whose setting in d is truthy
Exported(d) ==
    {n \in DOMAIN postgres_variables : postgres_variables[n] # "" /\ truthy_setting(d, n)}

\* C15: the environment a worker has built when its run ends is os.environ
\* with, for exactly the names of the vocabulary whose setting is truthy and
\* whose external name is not empty, the external variable set to the
\* setting; apart from the client encoding, which has a default of its own,
\* no other entry is added or changed.
C15_EnvironmentDerivation ==
    \A i \in DOMAIN threads : threads[i].pc # "started" =>
        LET d == defaults[CmdWindow]
            e == threads[i].environment
            set == {postgres_variables[n] : n \in Exported(d)}
        IN  /\ \A n \in Exported(d) :
                  /\ postgres_variables[n] \in DOMAIN e
                  /\ e[postgres_variables[n]] = get(d, n)[n]
            /\ \A x \in ((DOMAIN e) \cup (DOMAIN env.environ)) \ (set \cup {ClientEncodingName}) :
                  /\ x \in DOMAIN e
                  /\ x \in DOMAIN env.environ
                  /\ e[x] = env.environ[x]

\* C16: when the setting client_encoding is not truthy, the environment a
\* worker has built when its run ends has the client encoding variable set
\* to the encoding of the view, whatever os.environ holds for it.
C16_ClientEncodingDefault ==
    \A i \in DOMAIN threads : threads[i].pc # "started" =>
        (~ truthy_setting(defaults[CmdWindow], "client_encoding") =>
            /\ ClientEncodingName \in DOMAIN threads[i].environment
            /\ threads[i].environment[ClientEncodingName] = env.encoding)

----------------------------------------------------------------------------
(* The settings change while the workers of an invocation are in flight *)

InFlightNext ==
    \/ ThreadsNext
    \/ \E value \in Values : setitem(CmdWindow, "output_to_newfile", value)
    \/ reload_all_windows

SpecInFlight == ThreadsInit /\ [][InFlightNext]_vars

\* the worker's text has been put into a view of its own
InNewView(i) == \E k \in 1..Len(ui.views) : ui.views[k] = output_text(i)

\* C17: every worker of an invocation delivers to the destination that was
\* resolved when the invocation was dispatched, whatever is set or reloaded
\* in the store while the worker is in flight: to the output panel when
\* __run_with_password created one, to a view of its own when it did not.
C17_InvocationSnapshot ==
    \A i \in DOMAIN threads :
        /\ threads[i].pc \in {"acquire", "append", "release", "raised"} => ui.output_panel
        /\ InNewView(i) => ~ ui.output_panel

----------------------------------------------------------------------------
(* Dispatcher: the password prompt over several invocations *)

\* a password that is not empty is held in the settings d
HoldsPassword(d) == contains(d, "password") /\ Truthy(get(d, "password")["password"])

\* C20: every invocation of run, the first of the window or a later one,
\* that finds a password required and no non-empty password in its resolved
\* settings has asked the input panel for a password when it ends, and no
\* worker thread exists then.
C20_PromptEveryInvocation ==
    [][(cmd'.handler = "run" /\ cmd' # cmd) =>
          LET r == Resolved(CmdWindow, cmd'.kwargs)
          IN  (is_password_required(r) /\ ~ HoldsPassword(r))
                 => (ui'.input_panel /\ threads' = <<>>)]_vars

====
